---- MODULE Spec2Model ----
(***************************************************************************)
(* Model of Lib/_py_abc.py: the pure-Python ABCMeta.  The state is the     *)
(* per-class registry, positive cache, negative cache and negative cache   *)
(* version of every ABC, and the class attribute                            *)
(* ABCMeta._abc_invalidation_counter.  The operations are class creation   *)
(* (ABCMeta.__new__), register, __subclasscheck__, __instancecheck__ and   *)
(* get_cache_token.                                                         *)
(***************************************************************************)
EXTENDS Integers, Sequences, FiniteSets, TLC

VARIABLES
    created,                      \* the ABCs created so far by ABCMeta.__new__
    bases,                        \* bases[c]: the direct bases of ABC c
    hook,                         \* hook[c][t]: what c.__subclasshook__(t) returns
    abc_registry,                 \* cls._abc_registry
    abc_cache,                    \* cls._abc_cache
    abc_negative_cache,           \* cls._abc_negative_cache
    abc_negative_cache_version,   \* cls._abc_negative_cache_version
    abc_invalidation_counter,     \* ABCMeta._abc_invalidation_counter
    last,                         \* the call made last and what it returned or raised
    thr                           \* thr[i]: the call stack and the result of thread i

vars == <<created, bases, hook, abc_registry, abc_cache, abc_negative_cache,
          abc_negative_cache_version, abc_invalidation_counter, last, thr>>

-----------------------------------------------------------------------------
(* The universe of values.                                                 *)

\* Classes whose metaclass is ABCMeta, named in the order of their creation.
ABCs == {"A", "B"}

\* An ordinary class (metaclass type); issubclass(x, P) is type.__subclasscheck__.
Plain == {"P"}

Classes == ABCs \cup Plain

\* A value that is not a class (isinstance(v, type) is false).
NonClasses == {"nt"}

Values == Classes \cup NonClasses

\* The threads of the concurrent specification.
Threads == {"t1", "t2", "t3"}

\* The largest value the invalidation counter takes in the model.
MaxCounter == 2

\* The position of an ABC in the order of creation.
Rank(c) == CASE c = "A" -> 1 [] c = "B" -> 2 [] OTHER -> 0

\* object.__subclasshook__: NotImplemented for every class.
DefaultHook == [t \in Classes |-> "NotImplemented"]

\* The __subclasshook__ of a new ABC in the model: A inherits object's; B
\* inherits it too or overrides it with a definite answer for one class (A, B
\* itself or P), NotImplemented for the others.
HookChoices(c) ==
    {DefaultHook} \cup
    {[DefaultHook EXCEPT ![t] = a] :
        t \in IF c = "B" THEN {"A", "B", "P"} ELSE {}, a \in {"True", "False"}}

\* The bases of a new ABC in the model: none, or the class before it in the
\* order P, A, B.
BaseChoices(c) == {{}, IF c = "A" THEN {"P"} ELSE {"A"}}

\* The instances of the model, as <<instance.__class__, type(instance)>>: the
\* two agree, or differ as they do for a proxy object.
Instances == {<<"P", "P">>, <<"B", "B">>, <<"B", "P">>, <<"P", "B">>}

\* The enumeration orders of a WeakSet and of __subclasses__() in the model.
Orders == {<<"A", "B", "P">>, <<"P", "B", "A">>}

\* The members of set S in the order o.
RECURSIVE InOrder(_, _)
InOrder(S, o) ==
    IF o = <<>> THEN <<>>
    ELSE IF Head(o) \in S THEN <<Head(o)>> \o InOrder(S, Tail(o))
    ELSE InOrder(S, Tail(o))

-----------------------------------------------------------------------------
(* The class hierarchy.                                                    *)

DirectBases(c) == IF c \in created THEN bases[c] ELSE {}

\* cls.__mro__ as a set: the class and all its ancestors.
RECURSIVE mro(_)
mro(c) == {c} \cup UNION {mro(b) : b \in DirectBases(c)}

\* cls.__subclasses__(): the classes created with cls among their bases.
subclasses(c) == {s \in created : c \in bases[s]}

\* The orders that enumerate differently in the current state: with no
\* registry and no __subclasses__() of two or more classes, all do the same.
CurrentOrders ==
    IF \E c \in ABCs : \/ Cardinality(abc_registry[c]) >= 2
                       \/ Cardinality(subclasses(c)) >= 2
    THEN Orders
    ELSE {<<"A", "B", "P">>}

-----------------------------------------------------------------------------
(* The mutable state of ABCMeta, threaded through a call.                  *)

Heap == [registry |-> abc_registry, cache |-> abc_cache,
         neg |-> abc_negative_cache, ver |-> abc_negative_cache_version,
         counter |-> abc_invalidation_counter]

\* self._abc_cache.add(subclass)
CacheAdd(st, c, t) == [st EXCEPT !.cache[c] = @ \cup {t}]

\* self._abc_negative_cache.add(subclass)
NegAdd(st, c, t) == [st EXCEPT !.neg[c] = @ \cup {t}]

\* NegativeHit without the version test of line 118.
NegativeHit_AnyVersion(st, c, t) == t \in st.neg[c]

\* Lines 118 and 122: the negative cache is current and holds t.
NegativeHit(st, c, t) ==
    /\ ~(st.ver[c] < st.counter)
    /\ t \in st.neg[c]

\* Invalidate emptying the positive cache with the negative one.
Invalidate_BothCaches(st, c) ==
    IF st.ver[c] < st.counter
    THEN [st EXCEPT !.neg[c] = {}, !.cache[c] = {}, !.ver[c] = st.counter]
    ELSE st

\* Invalidate renewing the version but keeping the entries.
Invalidate_KeepEntries(st, c) ==
    IF st.ver[c] < st.counter
    THEN [st EXCEPT !.ver[c] = st.counter]
    ELSE st

\* Invalidate stamping the cache with the next value of the counter.
Invalidate_StampNext(st, c) ==
    IF st.ver[c] < st.counter
    THEN [st EXCEPT !.neg[c] = {}, !.ver[c] = st.counter + 1]
    ELSE st

\* Lines 118-121: a stale negative cache is replaced by an empty one.
Invalidate(st, c) ==
    IF st.ver[c] < st.counter
    THEN [st EXCEPT !.neg[c] = {}, !.ver[c] = st.counter]
    ELSE st

\* Commit without line 69.
Commit_NoIncrement(st, c, t) == [st EXCEPT !.registry[c] = @ \cup {t}]

\* Lines 68-69: the class is added to the registry and the counter moves on.
Commit(st, c, t) ==
    [st EXCEPT !.registry[c] = @ \cup {t}, !.counter = @ + 1]

\* ABCMeta.__subclasscheck__(c, t) started in the state st, enumerating in
\* order o, while the checks of the classes in path are in progress.  The
\* result is what the call returns ("True", "False") or raises, with the state
\* it leaves.  A check that re-enters a class whose check is in progress
\* recurses without end: Python raises RecursionError.
RECURSIVE subclasscheck(_, _, _, _, _), AnyIssubclass(_, _, _, _, _)
\* issubclass looking at the real ancestors only, also for an ABC.
issubclass_RealOnly(st, t, c, o, path) ==
    [res |-> IF c \in mro(t) THEN "True" ELSE "False", st |-> st]

issubclass(st, t, c, o, path) ==
    IF c \in ABCs THEN subclasscheck(st, c, t, o, path)
    ELSE [res |-> IF c \in mro(t) THEN "True" ELSE "False", st |-> st]

\* any(issubclass(t, r) for r in rs), left to right, stopping at the first
\* true answer or exception.
AnyIssubclass(st, t, rs, o, path) ==
    IF rs = <<>> THEN [res |-> "False", st |-> st]
    ELSE LET r == issubclass(st, t, Head(rs), o, path)
         IN  IF r.res = "False" THEN AnyIssubclass(r.st, t, Tail(rs), o, path)
             ELSE r

\* subclasscheck looking at the ancestors (line 134) before the hook.
subclasscheck_MroBeforeHook(st, c, t, o, path) ==
    IF t \notin Classes THEN [res |-> "TypeError", st |-> st]
    ELSE IF c \in path THEN [res |-> "RecursionError", st |-> st]
    ELSE IF t \in st.cache[c] THEN [res |-> "True", st |-> st]
    ELSE IF NegativeHit(st, c, t) THEN [res |-> "False", st |-> st]
    ELSE
    LET st1 == Invalidate(st, c)
        ok  == hook[c][t]
    IN  IF c \in mro(t)
        THEN [res |-> "True", st |-> CacheAdd(st1, c, t)]
        ELSE IF ok # "NotImplemented"
        THEN [res |-> ok,
              st |-> IF ok = "True" THEN CacheAdd(st1, c, t)
                     ELSE NegAdd(st1, c, t)]
        ELSE
        LET r1 == AnyIssubclass(st1, t, InOrder(st1.registry[c], o), o,
                                path \cup {c})
        IN  IF r1.res = "True"
            THEN [res |-> "True", st |-> CacheAdd(r1.st, c, t)]
            ELSE IF r1.res # "False" THEN r1
            ELSE
            LET r2 == AnyIssubclass(r1.st, t, InOrder(subclasses(c), o), o,
                                    path \cup {c})
            IN  IF r2.res = "True"
                THEN [res |-> "True", st |-> CacheAdd(r2.st, c, t)]
                ELSE IF r2.res # "False" THEN r2
                ELSE [res |-> "False", st |-> NegAdd(r2.st, c, t)]

subclasscheck(st, c, t, o, path) ==
    IF t \notin Classes THEN [res |-> "TypeError", st |-> st]
    ELSE IF c \in path THEN [res |-> "RecursionError", st |-> st]
    ELSE IF t \in st.cache[c] THEN [res |-> "True", st |-> st]
    ELSE IF NegativeHit(st, c, t) THEN [res |-> "False", st |-> st]
    ELSE
    LET st1 == Invalidate(st, c)
        ok  == hook[c][t]
    IN  IF ok # "NotImplemented"
        THEN [res |-> ok,
              st |-> IF ok = "True" THEN CacheAdd(st1, c, t)
                     ELSE NegAdd(st1, c, t)]
        ELSE IF c \in mro(t)
        THEN [res |-> "True", st |-> CacheAdd(st1, c, t)]
        ELSE
        LET r1 == AnyIssubclass(st1, t, InOrder(st1.registry[c], o), o,
                                path \cup {c})
        IN  IF r1.res = "True"
            THEN [res |-> "True", st |-> CacheAdd(r1.st, c, t)]
            ELSE IF r1.res # "False" THEN r1
            ELSE
            LET r2 == AnyIssubclass(r1.st, t, InOrder(subclasses(c), o), o,
                                    path \cup {c})
            IN  IF r2.res = "True"
                THEN [res |-> "True", st |-> CacheAdd(r2.st, c, t)]
                ELSE IF r2.res # "False" THEN r2
                ELSE [res |-> "False", st |-> NegAdd(r2.st, c, t)]

\* What issubclass(t, c) answers in the state st, enumerating in order o.
AnswerIn(st, c, t, o) == subclasscheck(st, c, t, o, {}).res

\* What issubclass(t, c) answers in the current state.
Answer(c, t, o) == AnswerIn(Heap, c, t, o)

SetHeap(st) ==
    /\ abc_registry' = st.registry
    /\ abc_cache' = st.cache
    /\ abc_negative_cache' = st.neg
    /\ abc_negative_cache_version' = st.ver
    /\ abc_invalidation_counter' = st.counter

-----------------------------------------------------------------------------
(* The operations.                                                         *)

\* A thread that has made no call.
Idle == [stack |-> <<>>, res |-> "none"]

Init ==
    /\ created = {}
    /\ bases = [c \in ABCs |-> {}]
    /\ hook = [c \in ABCs |-> DefaultHook]
    /\ abc_registry = [c \in ABCs |-> {}]
    /\ abc_cache = [c \in ABCs |-> {}]
    /\ abc_negative_cache = [c \in ABCs |-> {}]
    /\ abc_negative_cache_version = [c \in ABCs |-> 0]
    /\ abc_invalidation_counter = 0
    /\ last = [op |-> "none", res |-> "none"]
    /\ thr = [i \in Threads |-> Idle]

\* ABCMeta.__new__: class c(*bs, metaclass=ABCMeta) with the hook h.
new(c, bs, h) ==
    /\ c \in ABCs \ created
    /\ \A d \in ABCs : Rank(d) < Rank(c) => d \in created
    /\ bs \in BaseChoices(c)
    /\ h \in HookChoices(c)
    /\ created' = created \cup {c}
    /\ bases' = [bases EXCEPT ![c] = bs]
    /\ hook' = [hook EXCEPT ![c] = h]
    /\ abc_registry' = [abc_registry EXCEPT ![c] = {}]
    /\ abc_cache' = [abc_cache EXCEPT ![c] = {}]
    /\ abc_negative_cache' = [abc_negative_cache EXCEPT ![c] = {}]
    /\ abc_negative_cache_version' =
           [abc_negative_cache_version EXCEPT ![c] = abc_invalidation_counter]
    /\ last' = [op |-> "new", res |-> c]
    /\ UNCHANGED <<abc_invalidation_counter, thr>>

\* register without the "already a subclass" test of lines 61-62.
RegisterOutcome_NoAlreadyTest(st, c, t, o) ==
    IF t \notin Classes THEN [res |-> "TypeError", st |-> st]
    ELSE
    LET r2 == issubclass(st, c, t, o, {})
    IN  IF r2.res = "True" THEN [res |-> "RuntimeError", st |-> r2.st]
        ELSE IF r2.res # "False" THEN r2
        ELSE [res |-> "registered", st |-> Commit(r2.st, c, t)]

\* register adding to the registry before the cycle test.
RegisterOutcome_AddFirst(st, c, t, o) ==
    IF t \notin Classes THEN [res |-> "TypeError", st |-> st]
    ELSE
    LET r1 == issubclass(st, t, c, o, {})
    IN  IF r1.res = "True" THEN [res |-> "already", st |-> r1.st]
        ELSE IF r1.res # "False" THEN r1
        ELSE
        LET st2 == [r1.st EXCEPT !.registry[c] = @ \cup {t}]
            r2  == issubclass(st2, c, t, o, {})
        IN  IF r2.res = "True" THEN [res |-> "RuntimeError", st |-> r2.st]
            ELSE IF r2.res # "False" THEN r2
            ELSE [res |-> "registered",
                  st |-> [r2.st EXCEPT !.counter = @ + 1]]

\* c.register(t) started in the state st, enumerating in order o: the
\* exception it raises, or "already" (line 62 returns t) or "registered"
\* (line 70 returns t), with the state it leaves.
RegisterOutcome(st, c, t, o) ==
    IF t \notin Classes THEN [res |-> "TypeError", st |-> st]
    ELSE
    LET r1 == issubclass(st, t, c, o, {})
    IN  IF r1.res = "True" THEN [res |-> "already", st |-> r1.st]
        ELSE IF r1.res # "False" THEN r1
        ELSE
        LET r2 == issubclass(r1.st, c, t, o, {})
        IN  IF r2.res = "True" THEN [res |-> "RuntimeError", st |-> r2.st]
            ELSE IF r2.res # "False" THEN r2
            ELSE [res |-> "registered", st |-> Commit(r2.st, c, t)]

\* ABCMeta.register.
register(c, t, o) ==
    LET out == RegisterOutcome(Heap, c, t, o)
    IN  /\ c \in created
        /\ t \in created \cup Plain \cup NonClasses
        /\ out.st.counter <= MaxCounter
        /\ SetHeap(out.st)
        /\ last' = [op |-> "register", res |-> out.res]
        /\ UNCHANGED <<created, bases, hook, thr>>

\* check invalidating the negative cache before the type test of line 112.
check_InvalidateFirst(c, t, o) ==
    LET r == subclasscheck(Invalidate(Heap, c), c, t, o, {})
    IN  /\ c \in created
        /\ t \in created \cup Plain \cup NonClasses
        /\ SetHeap(r.st)
        /\ last' = [op |-> "issubclass", res |-> r.res]
        /\ UNCHANGED <<created, bases, hook, thr>>

\* issubclass(t, c) for an ABC c: ABCMeta.__subclasscheck__.
check(c, t, o) ==
    LET r == subclasscheck(Heap, c, t, o, {})
    IN  /\ c \in created
        /\ t \in created \cup Plain \cup NonClasses
        /\ SetHeap(r.st)
        /\ last' = [op |-> "issubclass", res |-> r.res]
        /\ UNCHANGED <<created, bases, hook, thr>>

\* get_cache_token().
get_cache_token == abc_invalidation_counter

\* InstanceOutcome taking the negative cache fast path of lines 100-105 also
\* when type(x) is not x.__class__.
InstanceOutcome_FastPathAlways(st, c, x, o) ==
    LET subclass == x[1]
        subtype  == x[2]
    IN  IF subclass \in st.cache[c] THEN [res |-> "True", st |-> st]
        ELSE IF st.ver[c] = st.counter /\ subclass \in st.neg[c]
        THEN [res |-> "False", st |-> st]
        ELSE IF subtype = subclass
        THEN subclasscheck(st, c, subclass, o, {})
        ELSE LET r == subclasscheck(st, c, subclass, o, {})
             IN  IF r.res = "False" THEN subclasscheck(r.st, c, subtype, o, {})
                 ELSE r

\* ABCMeta.__instancecheck__(c, x) for an instance x = <<x.__class__, type(x)>>
\* started in the state st.
InstanceOutcome(st, c, x, o) ==
    LET subclass == x[1]
        subtype  == x[2]
    IN  IF subclass \in st.cache[c] THEN [res |-> "True", st |-> st]
        ELSE IF subtype = subclass
        THEN IF st.ver[c] = st.counter /\ subclass \in st.neg[c]
             THEN [res |-> "False", st |-> st]
             ELSE subclasscheck(st, c, subclass, o, {})
        ELSE LET r == subclasscheck(st, c, subclass, o, {})
             IN  IF r.res = "False" THEN subclasscheck(r.st, c, subtype, o, {})
                 ELSE r

\* isinstance(x, c) for an ABC c.
instancecheck(c, x, o) ==
    LET r == InstanceOutcome(Heap, c, x, o)
    IN  /\ c \in created
        /\ {x[1], x[2]} \subseteq created \cup Plain
        /\ SetHeap(r.st)
        /\ last' = [op |-> "isinstance", res |-> r.res]
        /\ UNCHANGED <<created, bases, hook, thr>>

token ==
    /\ last' = [op |-> "get_cache_token", res |-> "token"]
    /\ UNCHANGED <<created, bases, hook, abc_registry, abc_cache,
                   abc_negative_cache, abc_negative_cache_version,
                   abc_invalidation_counter, thr>>

Next ==
    \/ \E c \in ABCs, bs \in SUBSET Classes,
          h \in [Classes -> {"True", "False", "NotImplemented"}] : new(c, bs, h)
    \/ \E c \in ABCs, t \in Values, o \in CurrentOrders : register(c, t, o)
    \/ \E c \in ABCs, t \in Values, o \in CurrentOrders : check(c, t, o)
    \/ \E c \in ABCs, x \in Instances, o \in CurrentOrders :
           instancecheck(c, x, o)
    \/ token

Spec == Init /\ [][Next]_vars

-----------------------------------------------------------------------------
(* The debugging helpers, which the steady-state operations never call.    *)

\* ABCMeta._abc_registry_clear.
abc_registry_clear(c) ==
    /\ c \in created
    /\ abc_registry' = [abc_registry EXCEPT ![c] = {}]
    /\ last' = [op |-> "_abc_registry_clear", res |-> "None"]
    /\ UNCHANGED <<created, bases, hook, abc_cache, abc_negative_cache,
                   abc_negative_cache_version, abc_invalidation_counter, thr>>

\* _abc_caches_clear invalidating through the counter as well.
abc_caches_clear_Bump(c) ==
    /\ c \in created
    /\ abc_invalidation_counter < MaxCounter
    /\ abc_cache' = [abc_cache EXCEPT ![c] = {}]
    /\ abc_negative_cache' = [abc_negative_cache EXCEPT ![c] = {}]
    /\ abc_invalidation_counter' = abc_invalidation_counter + 1
    /\ last' = [op |-> "_abc_caches_clear", res |-> "None"]
    /\ UNCHANGED <<created, bases, hook, abc_registry,
                   abc_negative_cache_version, thr>>

\* ABCMeta._abc_caches_clear.
abc_caches_clear(c) ==
    /\ c \in created
    /\ abc_cache' = [abc_cache EXCEPT ![c] = {}]
    /\ abc_negative_cache' = [abc_negative_cache EXCEPT ![c] = {}]
    /\ last' = [op |-> "_abc_caches_clear", res |-> "None"]
    /\ UNCHANGED <<created, bases, hook, abc_registry,
                   abc_negative_cache_version, abc_invalidation_counter, thr>>

\* The operations with the two helpers, for classes that inherit the
\* __subclasshook__ of object.
NextDebug ==
    \/ \E c \in ABCs, bs \in SUBSET Classes : new(c, bs, DefaultHook)
    \/ \E c \in ABCs, t \in Values, o \in CurrentOrders : register(c, t, o)
    \/ \E c \in ABCs, t \in Values, o \in CurrentOrders : check(c, t, o)
    \/ \E c \in ABCs, x \in Instances, o \in CurrentOrders :
           instancecheck(c, x, o)
    \/ token
    \/ \E c \in ABCs : abc_registry_clear(c)
    \/ \E c \in ABCs : abc_caches_clear(c)

SpecDebug == Init /\ [][NextDebug]_vars

-----------------------------------------------------------------------------
(* Threads.  The code takes no lock, so the calls of several threads       *)
(* interleave between any two accesses to the shared state.  A thread runs *)
(* one call; a frame of its stack is a register or a __subclasscheck__ in  *)
(* progress, at the line pc, with the classes still to enumerate in it and *)
(* the value it has read in tmp.  Every step makes at most one read or one *)
(* write of a shared attribute.                                            *)

\* The order in which the threads' loops enumerate.
ConcOrder == <<"A", "B", "P">>

\* The calls a thread may make: t1 tests issubclass(P, A), t2 registers P
\* with A, t3 registers P with A as well or tests issubclass(A, A).
CallChoices(i) ==
    CASE i = "t1" -> {<<"issubclass", "A", "P">>}
      [] i = "t2" -> {<<"register", "A", "P">>}
      [] OTHER    -> {<<"register", "A", "P">>, <<"issubclass", "A", "A">>}

\* The frame of cls.__subclasscheck__(subclass) at its first line.
CheckFrame(c, t) ==
    [fn |-> "check", c |-> c, t |-> t, pc |-> "c115", it |-> <<>>,
     phase |-> "registry", tmp |-> 0]

\* The frame of cls.register(subclass) waiting for issubclass(subclass, cls).
RegisterFrame(c, t) ==
    [fn |-> "register", c |-> c, t |-> t, pc |-> "r61", it |-> <<>>,
     phase |-> "registry", tmp |-> 0]

Top(stk) == stk[Len(stk)]

\* The stack with its top frame replaced by f.
SetTop(stk, f) == [stk EXCEPT ![Len(stk)] = f]

\* The thread after its top frame returns v: the call is over when the frame
\* was the only one; otherwise the caller goes on from the line that called.
Return(stk, v) ==
    LET rest == SubSeq(stk, 1, Len(stk) - 1)
    IN  IF rest = <<>> THEN [stack |-> <<>>, res |-> v]
        ELSE
        LET f == Top(rest)
        IN  CASE f.pc = "c139" ->
                   [stack |-> SetTop(rest,
                        IF v = "True" THEN [f EXCEPT !.pc = "c140"]
                        ELSE [f EXCEPT !.it = Tail(@)]),
                    res |-> "none"]
              [] f.pc = "r61" ->
                   IF v = "True" THEN [stack |-> <<>>, res |-> "already"]
                   ELSE [stack |-> SetTop(rest, [f EXCEPT !.pc = "r65"]),
                         res |-> "none"]
              [] f.pc = "r65w" ->
                   IF v = "True" THEN [stack |-> <<>>, res |-> "RuntimeError"]
                   ELSE [stack |-> SetTop(rest, [f EXCEPT !.pc = "r68"]),
                         res |-> "none"]

\* The state after construction for the threads: class A and class B exist,
\* neither has bases or a hook, and A.register(B) has run.
InitConc ==
    /\ created = ABCs
    /\ bases = [c \in ABCs |-> {}]
    /\ hook = [c \in ABCs |-> DefaultHook]
    /\ LET empty == [registry |-> [c \in ABCs |-> {}],
                     cache |-> [c \in ABCs |-> {}],
                     neg |-> [c \in ABCs |-> {}],
                     ver |-> [c \in ABCs |-> 0],
                     counter |-> 0]
           st == RegisterOutcome(empty, "A", "B", ConcOrder).st
       IN  /\ abc_registry = st.registry
           /\ abc_cache = st.cache
           /\ abc_negative_cache = st.neg
           /\ abc_negative_cache_version = st.ver
           /\ abc_invalidation_counter = st.counter
    /\ last = [op |-> "none", res |-> "none"]
    /\ thr = [i \in Threads |-> Idle]

\* Thread i calls c.register(t) or issubclass(t, c).  register passes the
\* type test of line 59 and calls issubclass(subclass, cls) on line 61.
Call(i, k) ==
    /\ thr[i] = Idle
    /\ k \in CallChoices(i)
    /\ thr' = [thr EXCEPT ![i].stack =
                  IF k[1] = "register"
                  THEN <<RegisterFrame(k[2], k[3]), CheckFrame(k[2], k[3])>>
                  ELSE <<CheckFrame(k[2], k[3])>>]
    /\ UNCHANGED <<created, bases, hook, abc_registry, abc_cache,
                   abc_negative_cache, abc_negative_cache_version,
                   abc_invalidation_counter, last>>

\* Thread i runs the next line of the __subclasscheck__ on top of its stack.
CheckStep(i) ==
    /\ thr[i].stack # <<>>
    /\ Top(thr[i].stack).fn = "check"
    /\ LET stk == thr[i].stack
           f   == Top(stk)
           c   == f.c
           t   == f.t
           goto(pc) == thr' = [thr EXCEPT ![i].stack = SetTop(stk, [f EXCEPT !.pc = pc])]
           return(v) == thr' = [thr EXCEPT ![i] = Return(stk, v)]
       IN  CASE f.pc = "c115" ->
                  /\ IF t \in abc_cache[c] THEN return("True") ELSE goto("c118")
                  /\ UNCHANGED <<abc_registry, abc_cache, abc_negative_cache,
                                 abc_negative_cache_version,
                                 abc_invalidation_counter>>
             [] f.pc = "c118" ->
                  /\ thr' = [thr EXCEPT ![i].stack = SetTop(stk,
                         [f EXCEPT !.tmp = abc_negative_cache_version[c],
                                   !.pc = "c118b"])]
                  /\ UNCHANGED <<abc_registry, abc_cache, abc_negative_cache,
                                 abc_negative_cache_version,
                                 abc_invalidation_counter>>
             [] f.pc = "c118b" ->
                  /\ IF f.tmp < abc_invalidation_counter
                     THEN goto("c120") ELSE goto("c122")
                  /\ UNCHANGED <<abc_registry, abc_cache, abc_negative_cache,
                                 abc_negative_cache_version,
                                 abc_invalidation_counter>>
             [] f.pc = "c120" ->
                  /\ abc_negative_cache' = [abc_negative_cache EXCEPT ![c] = {}]
                  /\ goto("c121")
                  /\ UNCHANGED <<abc_registry, abc_cache,
                                 abc_negative_cache_version,
                                 abc_invalidation_counter>>
             [] f.pc = "c121" ->
                  /\ thr' = [thr EXCEPT ![i].stack = SetTop(stk,
                         [f EXCEPT !.tmp = abc_invalidation_counter,
                                   !.pc = "c121b"])]
                  /\ UNCHANGED <<abc_registry, abc_cache, abc_negative_cache,
                                 abc_negative_cache_version,
                                 abc_invalidation_counter>>
             [] f.pc = "c121b" ->
                  /\ abc_negative_cache_version' =
                         [abc_negative_cache_version EXCEPT ![c] = f.tmp]
                  /\ goto("c125")
                  /\ UNCHANGED <<abc_registry, abc_cache, abc_negative_cache,
                                 abc_invalidation_counter>>
             [] f.pc = "c122" ->
                  /\ IF t \in abc_negative_cache[c]
                     THEN return("False") ELSE goto("c125")
                  /\ UNCHANGED <<abc_registry, abc_cache, abc_negative_cache,
                                 abc_negative_cache_version,
                                 abc_invalidation_counter>>
             [] f.pc = "c125" ->
                  IF hook[c][t] = "True" \/ (hook[c][t] = "NotImplemented" /\ c \in mro(t))
                  THEN /\ abc_cache' = [abc_cache EXCEPT ![c] = @ \cup {t}]
                       /\ return("True")
                       /\ UNCHANGED <<abc_registry, abc_negative_cache,
                                      abc_negative_cache_version,
                                      abc_invalidation_counter>>
                  ELSE IF hook[c][t] = "False"
                  THEN /\ abc_negative_cache' =
                              [abc_negative_cache EXCEPT ![c] = @ \cup {t}]
                       /\ return("False")
                       /\ UNCHANGED <<abc_registry, abc_cache,
                                      abc_negative_cache_version,
                                      abc_invalidation_counter>>
                  ELSE /\ goto("c138")
                       /\ UNCHANGED <<abc_registry, abc_cache,
                                      abc_negative_cache,
                                      abc_negative_cache_version,
                                      abc_invalidation_counter>>
             [] f.pc = "c138" ->
                  /\ thr' = [thr EXCEPT ![i].stack = SetTop(stk,
                         [f EXCEPT !.it = InOrder(abc_registry[c], ConcOrder),
                                   !.pc = "c139"])]
                  /\ UNCHANGED <<abc_registry, abc_cache, abc_negative_cache,
                                 abc_negative_cache_version,
                                 abc_invalidation_counter>>
             [] f.pc = "c139" ->
                  /\ thr' = [thr EXCEPT ![i].stack =
                         IF f.it = <<>>
                         THEN SetTop(stk,
                                  IF f.phase = "registry"
                                  THEN [f EXCEPT !.phase = "subclasses",
                                           !.it = InOrder(subclasses(c), ConcOrder)]
                                  ELSE [f EXCEPT !.pc = "c148"])
                         ELSE IF Head(f.it) \in ABCs
                         THEN Append(stk, CheckFrame(Head(f.it), t))
                         ELSE SetTop(stk,
                                  IF Head(f.it) \in mro(t)
                                  THEN [f EXCEPT !.pc = "c140"]
                                  ELSE [f EXCEPT !.it = Tail(@)])]
                  /\ UNCHANGED <<abc_registry, abc_cache, abc_negative_cache,
                                 abc_negative_cache_version,
                                 abc_invalidation_counter>>
             [] f.pc = "c140" ->
                  /\ abc_cache' = [abc_cache EXCEPT ![c] = @ \cup {t}]
                  /\ return("True")
                  /\ UNCHANGED <<abc_registry, abc_negative_cache,
                                 abc_negative_cache_version,
                                 abc_invalidation_counter>>
             [] f.pc = "c148" ->
                  /\ abc_negative_cache' =
                         [abc_negative_cache EXCEPT ![c] = @ \cup {t}]
                  /\ return("False")
                  /\ UNCHANGED <<abc_registry, abc_cache,
                                 abc_negative_cache_version,
                                 abc_invalidation_counter>>
    /\ UNCHANGED <<created, bases, hook, last>>

\* Thread i runs the next line of the register on top of its stack.
RegisterStep(i) ==
    /\ thr[i].stack # <<>>
    /\ Top(thr[i].stack).fn = "register"
    /\ LET stk == thr[i].stack
           f   == Top(stk)
           c   == f.c
           t   == f.t
       IN  CASE f.pc = "r65" ->
                  /\ thr' = [thr EXCEPT ![i] =
                         IF t \in ABCs
                         THEN [stack |-> Append(SetTop(stk, [f EXCEPT !.pc = "r65w"]),
                                                CheckFrame(t, c)),
                               res |-> "none"]
                         ELSE IF t \in mro(c)
                         THEN [stack |-> <<>>, res |-> "RuntimeError"]
                         ELSE [stack |-> SetTop(stk, [f EXCEPT !.pc = "r68"]),
                               res |-> "none"]]
                  /\ UNCHANGED <<abc_registry, abc_invalidation_counter>>
             [] f.pc = "r68" ->
                  /\ abc_registry' = [abc_registry EXCEPT ![c] = @ \cup {t}]
                  /\ thr' = [thr EXCEPT ![i].stack =
                                SetTop(stk, [f EXCEPT !.pc = "r69"])]
                  /\ UNCHANGED abc_invalidation_counter
             [] f.pc = "r69" ->
                  /\ thr' = [thr EXCEPT ![i].stack = SetTop(stk,
                         [f EXCEPT !.tmp = abc_invalidation_counter,
                                   !.pc = "r69b"])]
                  /\ UNCHANGED <<abc_registry, abc_invalidation_counter>>
             [] f.pc = "r69b" ->
                  /\ abc_invalidation_counter' = f.tmp + 1
                  /\ thr' = [thr EXCEPT ![i] = [stack |-> <<>>, res |-> "registered"]]
                  /\ UNCHANGED abc_registry
    /\ UNCHANGED <<created, bases, hook, abc_cache, abc_negative_cache,
                   abc_negative_cache_version, last>>

NextConc ==
    \/ \E i \in Threads, k \in {"register", "issubclass"} \X ABCs \X Classes :
           Call(i, k)
    \/ \E i \in Threads : CheckStep(i)
    \/ \E i \in Threads : RegisterStep(i)

SpecConc == InitConc /\ [][NextConc]_vars

-----------------------------------------------------------------------------
(* Notions the properties use.                                             *)

\* No ABC created so far overrides __subclasshook__.
NoHooks == \A c \in created : hook[c] = DefaultHook

\* The classes that exist.
Existing == created \cup Plain

\* The classes reached from c through one or more registrations: the
\* registry of c, the registries of the ABCs in it, and so on.
RECURSIVE RegisteredFrom(_, _)
RegisteredFrom(S, n) ==
    IF n = 0 THEN S
    ELSE RegisteredFrom(S \cup UNION {abc_registry[x] : x \in S \cap ABCs}, n - 1)

VirtualMembers(c) == RegisteredFrom(abc_registry[c], Cardinality(Classes))

\* The last call was c.register(t) for some t and ended with res.
Registered(res) == last.op = "register" /\ last.res = res

-----------------------------------------------------------------------------
(* C1.  The invalidation counter and register.                             *)

-----------------------------------------------------------------------------
(* C2.  register refuses to close a cycle.                                 *)

\* C2: once h is a virtual member of g, directly or through a chain of
\* registrations, h.register(g) raises RuntimeError, leaves the registries
\* and the counter, and issubclass(g, h) is false afterwards.
C2_CycleAlwaysRejected ==
    \A g \in created, h \in created :
        (h # g /\ h \in VirtualMembers(g)) =>
            \A o \in Orders :
                LET out == RegisterOutcome(Heap, h, g, o)
                IN  /\ out.res = "RuntimeError"
                    /\ out.st.registry = abc_registry
                    /\ out.st.counter = abc_invalidation_counter
                    /\ \A o2 \in Orders : AnswerIn(out.st, h, g, o2) = "False"

-----------------------------------------------------------------------------
(* C3.  A registration overrides an earlier negative answer.               *)

\* issubclass(t, c) has answered False and that answer is in the current
\* negative cache of c.
AnsweredFalse(c, t) ==
    /\ t \in abc_negative_cache[c]
    /\ abc_negative_cache_version[c] = abc_invalidation_counter
    /\ t \notin abc_cache[c]

\* After c.register(t) has returned from the current state, issubclass(t, c)
\* is true in every enumeration order.
TrueAfterRegister(c, t) ==
    \A o \in Orders :
        LET out == RegisterOutcome(Heap, c, t, o)
        IN  out.res \in {"registered", "already"} =>
                \A o2 \in Orders : AnswerIn(out.st, c, t, o2) = "True"

-----------------------------------------------------------------------------
(* C4.  A positive answer is never taken back.                             *)

\* C4: a check that answers True leaves the class in the positive cache, no
\* call removes a class from a positive cache, and a class in the positive
\* cache of c is answered True in every order; so once issubclass(t, c) has
\* returned True, every later issubclass(t, c) returns True.
C4_NoFlappingPositives ==
    /\ [](\A c \in created, t \in Existing, o \in Orders :
              LET r == subclasscheck(Heap, c, t, o, {})
              IN  /\ t \in abc_cache[c] => r.res = "True"
                  /\ r.res = "True" => t \in r.st.cache[c])
    /\ [][\A c \in ABCs : abc_cache[c] \subseteq abc_cache'[c]]_vars

\* issubclass(P, A) answered True through the registry of B, and two
\* registrations and further calls later the answer is still cached.
C4_Witness ==
    /\ "P" \in abc_cache["A"]
    /\ "P" \notin abc_registry["A"]
    /\ "P" \notin bases["A"]
    /\ abc_invalidation_counter = 2
    /\ abc_negative_cache_version["A"] = 2
    /\ last.op = "issubclass"

-----------------------------------------------------------------------------
(* C5.  Registering twice.                                                 *)

\* From the current state, where t is in the registry of c, c.register(t)
\* returns without adding anything and leaves every answer as it is.
SecondRegisterIsNoOp(c, t) ==
    \A o \in Orders :
        LET out == RegisterOutcome(Heap, c, t, o)
        IN  /\ out.res = "already"
            /\ out.st.registry = abc_registry
            /\ out.st.counter = abc_invalidation_counter
            /\ \A c2 \in created, t2 \in Existing, o2 \in Orders :
                   AnswerIn(out.st, c2, t2, o2) = Answer(c2, t2, o2)

-----------------------------------------------------------------------------
(* C6.  Virtual membership is transitive.                                  *)

-----------------------------------------------------------------------------
(* C7.  register commits as a whole or not at all.                         *)

RegistryGrewByOne ==
    \E c \in created, t \in Existing :
        abc_registry' = [abc_registry EXCEPT ![c] = @ \cup {t}]

\* C7 as stated: a register call adds the class and increments the counter,
\* or else (it raised, or the class was already a subclass) leaves every
\* registry, positive cache, negative cache, negative cache version and the
\* counter as they were.
C7_AllOrNothingWithCaches ==
    [][last'.op = "register" =>
          IF last'.res = "registered"
          THEN /\ RegistryGrewByOne
               /\ abc_invalidation_counter' = abc_invalidation_counter + 1
          ELSE UNCHANGED <<abc_registry, abc_cache, abc_negative_cache,
                           abc_negative_cache_version,
                           abc_invalidation_counter>>]_vars

\* C7 amended: a register call adds the class and increments the counter, or
\* else leaves every registry and the counter as they were; its two
\* issubclass tests may fill caches and renew negative cache versions.
C7_AllOrNothing ==
    [][last'.op = "register" =>
          IF last'.res = "registered"
          THEN /\ RegistryGrewByOne
               /\ abc_invalidation_counter' = abc_invalidation_counter + 1
          ELSE UNCHANGED <<abc_registry, abc_invalidation_counter>>]_vars

\* B.register(P) has raised RuntimeError (B derives from A, A from P), and
\* the two tests it made have filled the caches of B.
C7_Witness ==
    /\ Registered("RuntimeError")
    /\ bases = [c \in ABCs |-> IF c = "A" THEN {"P"} ELSE {"A"}]
    /\ abc_registry = [c \in ABCs |-> {}]
    /\ "P" \in abc_negative_cache["B"]

-----------------------------------------------------------------------------
(* C8.  The cache token.                                                   *)

\* C8: get_cache_token() returns the counter, and the token read after a
\* register call differs from the token read before it.
C8_TokenChangesWithEveryRegister ==
    [][last'.op = "register" => get_cache_token' # get_cache_token]_vars

-----------------------------------------------------------------------------
(* C9, C10.  Calls of several threads.                                     *)

\* Every thread has made its call and the call is over.
AllDone == \A i \in Threads : thr[i].stack = <<>> /\ thr[i].res # "none"

\* The number of register calls that have returned after adding their class.
Commits == Cardinality({i \in Threads : thr[i].res = "registered"})

\* C9: the checks and registrations of several threads have an outcome that
\* some serial order of the calls has, and no check leaves a negative cache
\* entry that is stale relative to a register that has returned: when every
\* call is over, issubclass(t, c) answers True for every class t in the
\* registry of c, as it does after the calls made one after the other.
C9_RegisteredIsSubclassWhenDone ==
    AllDone =>
        \A c \in created : \A t \in abc_registry[c] :
            Answer(c, t, ConcOrder) = "True"

\* C10: the registry insertion and the increment of the counter of a register
\* are one step to the other threads and no increment is lost: when every call
\* is over, the counter has moved by one for every register call that added
\* its class.
C10_NoLostIncrement ==
    AllDone => abc_invalidation_counter = 1 + Commits

-----------------------------------------------------------------------------
(* C11.  A check runs to completion.                                       *)

\* C11: in every state reached through class creation and register, for ABCs
\* with or without a subclass hook, issubclass(t, c) returns True or False for
\* every class t: the recursion through the registries and __subclasses__()
\* never re-enters a check that is still in progress.
C11_CheckTerminates ==
    \A c \in created, t \in Existing, o \in Orders :
        Answer(c, t, o) \in {"True", "False"}

-----------------------------------------------------------------------------
(* C12.  A value that is not a class.                                      *)

\* C12: c.register(v) and issubclass(v, c) for a value v that is not a class
\* raise TypeError, and a call that raises TypeError leaves every registry,
\* cache, negative cache version and the counter as they were.
C12_NotAType ==
    /\ [](\A c \in created, v \in NonClasses, o \in Orders :
              /\ RegisterOutcome(Heap, c, v, o) = [res |-> "TypeError", st |-> Heap]
              /\ subclasscheck(Heap, c, v, o, {}) = [res |-> "TypeError", st |-> Heap])
    /\ [][last'.res = "TypeError" =>
              UNCHANGED <<abc_registry, abc_cache, abc_negative_cache,
                          abc_negative_cache_version,
                          abc_invalidation_counter>>]_vars

\* A call on A has just raised TypeError after a registration, with the
\* negative cache of A stale and not empty.
C12_Witness ==
    /\ last.res = "TypeError"
    /\ abc_negative_cache_version["A"] < abc_invalidation_counter
    /\ abc_negative_cache["A"] # {}

-----------------------------------------------------------------------------
(* C13.  The order of the two tests of register.                           *)

\* From the current state c.register(t) returns t without adding it, and
\* leaves the registries and the counter.
RegisterIsNoOp(c, t) ==
    \A o \in Orders :
        LET out == RegisterOutcome(Heap, c, t, o)
        IN  /\ out.res = "already"
            /\ out.st.registry = abc_registry
            /\ out.st.counter = abc_invalidation_counter

\* C13: c.register(c) is a no-op for every ABC c: it returns c, raises no
\* RuntimeError and leaves the registry of c and the counter; and whenever
\* issubclass(t, c) is true, c.register(t) returns t and raises nothing.
C13_SelfRegisterIsNoOp ==
    /\ \A c \in created : RegisterIsNoOp(c, c)
    /\ \A c \in created, t \in Existing :
           (\A o \in Orders : Answer(c, t, o) = "True") => RegisterIsNoOp(c, t)

-----------------------------------------------------------------------------
(* C14.  isinstance and issubclass.                                        *)

\* a or b for two answers, a evaluated first: an exception of a is the result.
Either(a, b) == IF a = "False" THEN b ELSE a

\* C14: isinstance(x, c) returns issubclass(x.__class__, c) or
\* issubclass(type(x), c), both evaluated in the current state; when the two
\* classes are the same it returns issubclass(type(x), c).
C14_InstanceAgreesWithSubclass ==
    \A c \in created, x \in Instances, o \in Orders :
        {x[1], x[2]} \subseteq Existing =>
            InstanceOutcome(Heap, c, x, o).res =
                IF x[1] = x[2] THEN Answer(c, x[1], o)
                ELSE Either(Answer(c, x[1], o), Answer(c, x[2], o))

\* isinstance(x, A) has just answered True for an instance whose class B is
\* in the current negative cache of A and whose type P is registered with A.
C14_Witness ==
    /\ last = [op |-> "isinstance", res |-> "True"]
    /\ abc_registry["A"] = {"P"}
    /\ "B" \in abc_negative_cache["A"]
    /\ abc_negative_cache_version["A"] = abc_invalidation_counter
    /\ "P" \in abc_cache["A"]
    /\ abc_cache["B"] = {}

-----------------------------------------------------------------------------
(* C15.  A registration invalidates every negative cache.                  *)

\* C15: a register call that adds a class leaves the negative cache of every
\* ABC stale; a check of c that finds the negative cache of c stale and gets
\* past the positive cache leaves it current and holding nothing recorded
\* before the check; so a negative cache that is current holds only answers
\* given since the last registration.
C15_LazyInvalidation ==
    /\ [](\A c \in created, t \in Existing, o \in Orders :
              (/\ abc_negative_cache_version[c] < abc_invalidation_counter
               /\ t \notin abc_cache[c]) =>
                  LET r == subclasscheck(Heap, c, t, o, {})
                  IN  /\ r.st.ver[c] = abc_invalidation_counter
                      /\ r.st.neg[c] \subseteq {t})
    /\ [][last'.res = "registered" =>
              \A c \in created :
                  abc_negative_cache_version'[c] < abc_invalidation_counter']_vars

\* P was answered False by A, then B.register(P) added P: the negative cache
\* of A still holds P and is stale.
C15_Witness ==
    /\ "P" \in abc_negative_cache["A"]
    /\ "P" \in abc_registry["B"]
    /\ abc_negative_cache_version["A"] < abc_invalidation_counter
    /\ Registered("registered")

-----------------------------------------------------------------------------
(* C16.  The subclass hook comes first.                                    *)

\* C16: when t is not in the positive cache of c nor in its current negative
\* cache, and the hook of c answers True or False for t, issubclass(t, c)
\* returns that answer and records t in the positive or the negative cache of
\* c; it looks at nothing else, so it changes nothing of any other class.
C16_HookPrecedence ==
    \A c \in created, t \in Existing, o \in Orders :
        (/\ t \notin abc_cache[c]
         /\ ~NegativeHit(Heap, c, t)
         /\ hook[c][t] # "NotImplemented") =>
            LET r  == subclasscheck(Heap, c, t, o, {})
                s1 == Invalidate(Heap, c)
            IN  /\ r.res = hook[c][t]
                /\ r.st = IF hook[c][t] = "True"
                          THEN [s1 EXCEPT !.cache[c] = @ \cup {t}]
                          ELSE [s1 EXCEPT !.neg[c] = @ \cup {t}]

\* The hook of B answers False for P although P is in the registry of B, and
\* P is not in a cache of B that is current.
C16_Witness ==
    /\ hook["B"]["P"] = "False"
    /\ "P" \in abc_registry["B"]
    /\ "P" \notin abc_cache["B"]
    /\ ~NegativeHit(Heap, "B", "P")

-----------------------------------------------------------------------------
(* C17.  The enumeration order.                                            *)

\* C17: in every state issubclass(t, c) returns the same in every enumeration
\* order of the registries and of __subclasses__().
C17_OrderIndependent ==
    \A c \in created, t \in Existing :
        \A o1 \in Orders, o2 \in Orders :
            Answer(c, t, o1) = Answer(c, t, o2)

-----------------------------------------------------------------------------
(* C18.  What the operations other than register write.                    *)

\* C18: only register writes the counter: issubclass, isinstance, the
\* creation of a class, get_cache_token and the two clearing helpers leave it;
\* and issubclass and isinstance, with all the checks they make of other
\* classes, leave every registry, the classes and their hooks as they are.
C18_Frame ==
    [][/\ last'.op # "register" =>
              abc_invalidation_counter' = abc_invalidation_counter
       /\ last'.op \in {"issubclass", "isinstance"} =>
              UNCHANGED <<abc_registry, created, bases, hook>>]_vars

\* A check has just answered True through the registry of another class,
\* after the caches of A were cleared following two registrations.
C18_Witness ==
    /\ last = [op |-> "issubclass", res |-> "True"]
    /\ abc_invalidation_counter = 2
    /\ abc_registry = [c \in ABCs |-> IF c = "A" THEN {"B"} ELSE {"P"}]
    /\ abc_cache["A"] = {"P"}
    /\ abc_negative_cache["A"] = {}
    /\ abc_negative_cache_version["A"] = 2

-----------------------------------------------------------------------------
(* C19.  The version of a negative cache.                                  *)

\* C19: the negative cache version of every ABC is at most the counter, so
\* the test of line 118 (version < counter) and the test of lines 101-102
\* (version == counter) tell a stale cache from a current one alike.
C19_VersionAtMostCounter ==
    \A c \in created :
        /\ abc_negative_cache_version[c] <= abc_invalidation_counter
        /\ (abc_negative_cache_version[c] = abc_invalidation_counter)
               <=> ~(abc_negative_cache_version[c] < abc_invalidation_counter)

\* B was created after a registration, and a check after another has renewed
\* the negative cache of A: the versions differ and one is behind the counter.
C19_Witness ==
    /\ abc_invalidation_counter = 2
    /\ abc_negative_cache_version["A"] = 2
    /\ abc_negative_cache_version["B"] = 1
    /\ abc_negative_cache["A"] # {}

-----------------------------------------------------------------------------
(* C20.  The graph of registrations and subclasses.                        *)

\* The classes reached from the classes in S in n steps or fewer along the
\* edges c -> t for t in the registry of c and c -> s for s in
\* c.__subclasses__().
RECURSIVE ReachedFrom(_, _)
ReachedFrom(S, n) ==
    IF n = 0 THEN S
    ELSE ReachedFrom(
             S \cup UNION {abc_registry[x] \cup subclasses(x) : x \in S \cap created},
             n - 1)

\* C20: after any sequence of class creations and register calls, the graph
\* of the registrations and the direct subclasses has no cycle: no ABC is
\* reached from its own registry or subclasses.
C20_Acyclic ==
    \A c \in created :
        c \notin ReachedFrom(abc_registry[c] \cup subclasses(c), Cardinality(Classes))

-----------------------------------------------------------------------------
(* C21.  The caches do not change an answer.                               *)

\* The resolution of issubclass(t, c) without caches: the hook of c, the
\* ancestors of t, the registry of c and the subclasses of c, in the current
\* state; "RecursionError" when it re-enters a class it is resolving.
RECURSIVE Resolve(_, _, _, _), AnyResolve(_, _, _, _)
Resolve(c, t, o, path) ==
    IF c \notin ABCs THEN IF c \in mro(t) THEN "True" ELSE "False"
    ELSE IF c \in path THEN "RecursionError"
    ELSE IF hook[c][t] # "NotImplemented" THEN hook[c][t]
    ELSE IF c \in mro(t) THEN "True"
    ELSE LET r1 == AnyResolve(InOrder(abc_registry[c], o), t, o, path \cup {c})
         IN  IF r1 # "False" THEN r1
             ELSE AnyResolve(InOrder(subclasses(c), o), t, o, path \cup {c})

AnyResolve(rs, t, o, path) ==
    IF rs = <<>> THEN "False"
    ELSE LET r == Resolve(Head(rs), t, o, path)
         IN  IF r = "False" THEN AnyResolve(Tail(rs), t, o, path) ELSE r

\* C21: in every state reached by class creation, register, issubclass and
\* isinstance, issubclass(t, c) answers with the caches what the resolution
\* without caches answers, also after a class with a hook has been created as
\* a subclass of c.
C21_CacheTransparent ==
    \A c \in created, t \in Existing, o \in Orders :
        Answer(c, t, o) = Resolve(c, t, o, {})

====
